---- MODULE Spec2Model ----
(***************************************************************************)
(* Model of the WireGuard peer server (src/src/interface/peer_server.rs):  *)
(* the poll loop of the PeerServer future, its two handlers, the timer     *)
(* tasks it spawns and the peers' rotating session slots.                  *)
(*                                                                         *)
(* A Rust panic (unwrap/expect on None or Err, unimplemented!) unwinds out *)
(* of poll(): the mutations made before it stay, and the process is dead.  *)
(* It is modelled by status = "panicked", a state no action leaves.        *)
(*                                                                         *)
(* The Peer type (set_next_session, ratchet_session, the *_noise and       *)
(* *_index accessors, get_handshake_packet) is not among the sources; it   *)
(* is modelled from section 4.1 and 4.2 of the specification.  The AEAD    *)
(* of the snow library is abstracted: a payload carries the session index  *)
(* whose keys produced it (key), and it authenticates against a session or *)
(* handshake state exactly when that index is the session's own.           *)
(*                                                                         *)
(* The handlers hand their datagrams and plaintexts to udp_tx and          *)
(* tunnel_tx through send futures given to handle.spawn.  The reactor      *)
(* polls a spawned future on a later turn, after poll() has returned:      *)
(* until then the send is held in spawned.  It is never made when poll()   *)
(* panics; when poll() returns Err it is made if the reactor goes on       *)
(* turning, which is up to the caller.  The order in which the reactor     *)
(* polls the futures it holds is the reactor's own; no order is assumed.   *)
(* udp_tx holds what entered the channel of that name; the task that       *)
(* passes it on to the socket is polled on a turn of its own and ends when *)
(* the socket fails.                                                       *)
(*                                                                         *)
(* The private key of the interface, the pre-shared key and the endpoint   *)
(* of a peer are Options the handlers unwrap.  Nothing in the sources      *)
(* writes them: they are chosen at Init and kept.                          *)
(***************************************************************************)
EXTENDS Integers, Sequences, FiniteSets, TLC

\* ------------------------------------------------------------------ bounds
MaxIdx == 2
\* the indices of the specification that follows a peer through its rotations
MaxRotIdx == 3
MaxTime == 2
\* what the environment gives in all: datagrams, plaintexts, a failing socket
MaxInputs == 3
MaxInbound == 1
MaxLocal == 1

\* ------------------------------------------------------ program constants
\* capacity of the three unsync::mpsc channels
QueueCap == 1024
\* vec![0u8; 1500], the keepalive buffer before truncation
BufLen == 1500
\* header of a transport datagram: type, reserved, receiver index, nonce
TransportHeader == 16
\* AEAD tag appended by write_message
TagLen == 16
\* a handshake response is read up to &packet[8..12] for its two indices and
\* up to &packet[12..60] for its Noise message
ResponseHeader == 12
ResponseEnd == 60
\* consts::REKEY_AFTER_TIME and consts::KEEPALIVE_TIMEOUT.  The consts module
\* is not among the sources; the two durations are counted in clock ticks and
\* keep only what the specification says of them: the rekey timeout is the
\* longer one.
REKEY_AFTER_TIME == 2
KEEPALIVE_TIMEOUT == 1

Peers == {1, 2}
\* the indices a handshake can allocate; 0 is never allocated
Idx == 1 .. MaxIdx
\* the sender_index values a remote may put in a handshake response
Senders == {9}
Nonces == {1}
PayloadLens == {1}
\* a plaintext too long for raw_packet, the buffer read_message decrypts into
Oversize == BufLen + 1

VARIABLES
    peers,          \* peer -> [next, current, past, rx_bytes, tx_bytes]
    index_map,      \* SharedState.index_map: session index -> peer
    timer_rx,       \* queue of TimerMessage
    udp_stream,     \* inbound datagrams the socket holds, in arrival order
    outgoing_rx,    \* queue of local plaintext
    udp_tx,         \* every datagram that entered the udp_tx channel, in order
    tunnel_tx,      \* every plaintext handed to the tunnel, in order
    rekey_tasks,    \* the spawned rekey futures
    keepalive_tasks,\* the spawned keepalive futures
    clock,          \* time in ticks
    pc,             \* position of poll(): timers, udp, outgoing, suspended
    status,         \* running, panicked, failed (poll returned Err)
    last,           \* the event handled last, what became of it, the index looked up
    inputs,         \* number of inputs the environment has given
    spawned,        \* the send futures given to handle.spawn and not yet polled
    sink,           \* udp_write_passthrough: up while the task lives, busy
                    \* while the channel holds what it has not yet been
                    \* polled for, down once send_to has failed
    interface_info, \* SharedState.interface_info: whether a private key is set
    peer_info       \* peer.info: the endpoint (0 for None), whether a psk is set

vars == <<peers, index_map, timer_rx, udp_stream, outgoing_rx, udp_tx,
          tunnel_tx, rekey_tasks, keepalive_tasks, clock, pc, status, last,
          inputs, spawned, sink, interface_info, peer_info>>

\* the configuration: nothing in the sources writes it
config == <<interface_info, peer_info>>

\* ------------------------------------------------------------ data model
\* An absent slot (Option::None).
NoSession == [our_index |-> 0, their_index |-> 0, send_nonce |-> 0, recv_nonce |-> 0]

NoPeer == [next |-> NoSession, current |-> NoSession, past |-> NoSession,
           rx_bytes |-> 0, tx_bytes |-> 0]

EmptyMap == [i \in {} |-> 0]

NoEvent == [kind |-> "none", peer |-> 0, outcome |-> "none", index |-> 0]

\* A datagram: its type byte, the u32 at offset 4 (sender), the u32 at offset
\* 8 of a response (receiver; for a transport datagram the u32 at offset 4 is
\* the receiver), the u64 nonce at offset 8, the keys the payload was made
\* under, the length of the plaintext inside, and packet.len().  A datagram
\* built here is complete: a response that reaches to ResponseEnd, a transport
\* datagram of header, ciphertext and tag; of an initiation and of any other
\* datagram only the type byte is read, and that byte is all that is kept.
Datagram(t, s, r, n, k, l) ==
    [type |-> t, sender |-> s, receiver |-> r, nonce |-> n, key |-> k, plen |-> l,
     len |-> CASE t = 2 -> ResponseEnd
               [] t = 4 -> TransportHeader + l + TagLen
               [] OTHER -> 1]

\* packet.len()
WireLen(d) == d.len

\* the first n bytes of a datagram; the callers leave at 0 the fields that
\* lie behind the cut
Cut(d, n) == [d EXCEPT !.len = n]

\* the complete datagrams a remote may send
WellFormed ==
    {Datagram(t, 0, 0, 0, 0, 0) : t \in {1, 3, 5}}
    \cup {Datagram(2, s, r, 0, k, 0) : s \in Senders, r \in 0 .. MaxIdx, k \in 0 .. MaxIdx}
    \cup {Datagram(4, 0, r, n, k, l) : r \in 0 .. MaxIdx, n \in Nonces, k \in 0 .. MaxIdx,
                                       l \in PayloadLens}

\* VecUdpCodec::decode hands over whatever bytes came: no datagram at all
\* (0 bytes), a response or a transport datagram that ends inside its header,
\* a response that ends before its Noise message does, a transport datagram
\* that is all header, and one made under the keys of the session it names
\* whose plaintext is longer than raw_packet
Malformed ==
    {Cut(Datagram(0, 0, 0, 0, 0, 0), 0)}
    \cup {Cut(Datagram(2, 0, 0, 0, 0, 0), ResponseHeader - 2)}
    \cup {Cut(Datagram(2, s, r, 0, 0, 0), ResponseHeader) : s \in Senders, r \in Idx}
    \cup {Cut(Datagram(4, 0, 0, 0, 0, 0), TransportHeader - 8)}
    \cup {Cut(Datagram(4, 0, r, n, 0, 0), TransportHeader) : r \in Idx, n \in Nonces}
    \cup {Datagram(4, 0, r, n, r, Oversize) : r \in Idx, n \in Nonces}

Inbound == WellFormed \cup Malformed

\* the socket reported an error other than WouldBlock
IoError == Datagram(0, 0, 0, 0, 0, 0)

\* Option::None of peer.info.endpoint
NoEndpoint == 0

\* The configurations the server is started with: a complete one, one
\* without the interface's private key, one where the peers have no
\* pre-shared key and one where they have no endpoint (the peers are alike).
Configurations ==
    LET with(e, k) == [p \in Peers |-> [endpoint |-> IF e THEN p ELSE NoEndpoint,
                                        psk |-> k]]
    IN  { <<[private_key |-> TRUE], with(TRUE, TRUE)>>,
          <<[private_key |-> FALSE], with(TRUE, TRUE)>>,
          <<[private_key |-> TRUE], with(TRUE, FALSE)>>,
          <<[private_key |-> TRUE], with(FALSE, TRUE)>> }

\* as Insert, had the entries of the peer's older sessions been reaped
Insert_reap(m, k, v) ==
    [i \in {j \in DOMAIN m : m[j] # v} \cup {k} |-> IF i = k THEN v ELSE m[i]]

\* as Insert, had the index of the new session not been registered
Insert_none(m, k, v) == m

Insert(m, k, v) == [i \in DOMAIN m \cup {k} |-> IF i = k THEN v ELSE m[i]]

\* what the loop handled last: the source, the peer it resolved, the outcome
Event(kind, p, outcome) ==
    [kind |-> kind, peer |-> p, outcome |-> outcome, index |-> 0]

\* the outcome of a transport datagram, with the receiver index that was
\* looked up in the Index Table
TransportEvent(d, p, outcome) ==
    [kind |-> "udp", peer |-> p, outcome |-> outcome, index |-> d.receiver]

Init ==
    /\ peers = [p \in Peers |-> NoPeer]
    /\ index_map = EmptyMap
    /\ timer_rx = <<>>
    /\ udp_stream = <<>>
    /\ outgoing_rx = <<>>
    /\ udp_tx = <<>>
    /\ tunnel_tx = <<>>
    /\ rekey_tasks = <<>>
    /\ keepalive_tasks = <<>>
    /\ clock = 0
    /\ pc = "timers"
    /\ status = "running"
    /\ last = NoEvent
    /\ inputs = 0
    /\ spawned = <<>>
    /\ sink = "up"
    /\ \E c \in Configurations :
        /\ interface_info = c[1]
        /\ peer_info = c[2]

\* ------------------------------------------------ Peer (session slot machine)
Present(s) == s # NoSession

\* begin_handshake: creates the next slot for a fresh handshake state with
\* the locally chosen index i; fails, changing nothing, when a next slot
\* already exists.
set_next_session(pr, i) ==
    IF Present(pr.next) THEN pr
    ELSE [pr EXCEPT !.next = [our_index |-> i, their_index |-> 0,
                              send_nonce |-> 0, recv_nonce |-> 0]]

our_next_index(pr) == pr.next.our_index

\* the wire bytes {type=1, sender_index, encrypted initiator payload}
get_handshake_packet(pr) ==
    Datagram(1, pr.next.our_index, 0, 0, pr.next.our_index, 0)

\* complete_handshake: current -> past, next -> current
ratchet_session(pr) ==
    [pr EXCEPT !.past = pr.current,
               !.current = [pr.next EXCEPT !.send_nonce = 0, !.recv_nonce = 0],
               !.next = NoSession]

their_current_index(pr) == pr.current.their_index

\* A new locally chosen index is one the Index Table does not hold.  Which
\* of the unused indices is chosen does not matter to any handler (they only
\* compare indices for equality), so the lowest stands for all of them.
FreshIdxIn(n) ==
    LET unused == (1 .. n) \ DOMAIN index_map
    IN  {i \in unused : \A j \in unused : i <= j}

FreshIdx == FreshIdxIn(MaxIdx)

\* The indices held and the indices spoken for: a Rekey event that waits in
\* the timer queue for a peer without a handshake in flight will be given a
\* new index when it is handled.  (One for a peer with a handshake in flight
\* is handled before any datagram can complete that handshake, and takes
\* none.)
Booked ==
    Cardinality(DOMAIN index_map)
        + Cardinality({k \in DOMAIN timer_rx :
                         /\ timer_rx[k].kind = "Rekey"
                         /\ ~Present(peers[timer_rx[k].peer].next)})

\* --------------------------------------------------------- snow (abstracted)
\* as Authenticates, had the payload been accepted without its tag being checked
Authenticates_any(d, s) == Present(s)

\* as Authenticates, had the receiver index picked the one session to try
Authenticates_bound(d, s) ==
    Present(s) /\ d.key = s.our_index /\ d.receiver = s.our_index

\* read_message: the payload authenticates against the session or handshake
\* state whose keys made it, and its plaintext fits the buffer it is
\* decrypted into (a datagram cut before its tag carries no key: key = 0)
Authenticates(d, s) == Present(s) /\ d.key = s.our_index /\ d.plen <= BufLen

\* as NonceAfterWrite, had the nonce stayed where it was
NonceAfterWrite_same(n) == n

\* write_message in transport mode encrypts under the sending nonce n and
\* leaves the nonce behind it
NonceAfterWrite(n) == n + 1

\* read_message in transport mode, after set_receiving_nonce(n)
NonceAfterRead(n) == n + 1

\* --------------------------------------------------------------- frames
Panic(ev) ==
    /\ status' = "panicked"
    /\ last' = ev

Done(ev) ==
    /\ status' = status
    /\ last' = ev

\* handle.spawn(udp_tx.clone().send((addr, packet))) and
\* handle.spawn(tunnel_tx.clone().send(plaintext)): the future is only queued;
\* the reactor polls it after poll() has returned
ToUdp(addr, d) == [chan |-> "udp", item |-> <<addr, d>>]
ToTunnel(l) == [chan |-> "tunnel", item |-> l]

\* ------------------------------------------- handle_incoming_packet, type 2
\* as HandleResponse, had the timers been spawned without the slots being rotated
HandleResponse_noratchet(d) ==
    IF d.len < ResponseHeader
    THEN /\ Panic(Event("udp", 0, "panic_short_header"))
         /\ UNCHANGED <<peers, index_map, rekey_tasks, keepalive_tasks, spawned>>
    ELSE IF d.receiver \notin DOMAIN index_map
    THEN /\ Panic(Event("udp", 0, "panic_unknown_index"))
         /\ UNCHANGED <<peers, index_map, rekey_tasks, keepalive_tasks, spawned>>
    ELSE
    LET p == index_map[d.receiver]
        pr == peers[p]
        pr1 == [pr EXCEPT !.next.their_index = d.sender]
    IN  IF ~Present(pr.next)
        THEN /\ Panic(Event("udp", p, "panic_no_next"))
             /\ UNCHANGED <<peers, index_map, rekey_tasks, keepalive_tasks, spawned>>
        ELSE IF d.len < ResponseEnd
        THEN /\ Panic(Event("udp", p, "panic_short_body"))
             /\ peers' = [peers EXCEPT ![p] = pr1]
             /\ UNCHANGED <<index_map, rekey_tasks, keepalive_tasks, spawned>>
        ELSE IF ~Authenticates(d, pr.next)
        THEN /\ Panic(Event("udp", p, "panic_handshake_auth"))
             /\ peers' = [peers EXCEPT ![p] = pr1]
             /\ UNCHANGED <<index_map, rekey_tasks, keepalive_tasks, spawned>>
        ELSE /\ Done(Event("udp", p, "ratcheted"))
             /\ peers' = [peers EXCEPT ![p] = pr1]
             /\ rekey_tasks' = Append(rekey_tasks,
                    [peer |-> p, armed |-> clock, sent |-> 0, sent_at |-> 0])
             /\ keepalive_tasks' = Append(keepalive_tasks,
                    [peer |-> p, due |-> clock + KEEPALIVE_TIMEOUT])
             /\ UNCHANGED <<index_map, spawned>>

HandleResponse(d) ==
    IF d.len < ResponseHeader
    THEN \* read_u32(&packet[4..]) and read_u32(&packet[8..]) on a short slice
         /\ Panic(Event("udp", 0, "panic_short_header"))
         /\ UNCHANGED <<peers, index_map, rekey_tasks, keepalive_tasks, spawned>>
    ELSE IF d.receiver \notin DOMAIN index_map
    THEN \* index_map.get(&our_index).unwrap()
         /\ Panic(Event("udp", 0, "panic_unknown_index"))
         /\ UNCHANGED <<peers, index_map, rekey_tasks, keepalive_tasks, spawned>>
    ELSE
    LET p == index_map[d.receiver]
        pr == peers[p]
        pr1 == [pr EXCEPT !.next.their_index = d.sender]
    IN  IF ~Present(pr.next)
        THEN \* peer.sessions.next.as_mut().unwrap()
             /\ Panic(Event("udp", p, "panic_no_next"))
             /\ UNCHANGED <<peers, index_map, rekey_tasks, keepalive_tasks, spawned>>
        ELSE IF d.len < ResponseEnd
        THEN \* &packet[12..60], after their_index was written
             /\ Panic(Event("udp", p, "panic_short_body"))
             /\ peers' = [peers EXCEPT ![p] = pr1]
             /\ UNCHANGED <<index_map, rekey_tasks, keepalive_tasks, spawned>>
        ELSE IF ~Authenticates(d, pr.next)
        THEN \* read_message(..).unwrap(), after their_index was written
             /\ Panic(Event("udp", p, "panic_handshake_auth"))
             /\ peers' = [peers EXCEPT ![p] = pr1]
             /\ UNCHANGED <<index_map, rekey_tasks, keepalive_tasks, spawned>>
        ELSE /\ Done(Event("udp", p, "ratcheted"))
             /\ peers' = [peers EXCEPT ![p] = ratchet_session(pr1)]
             /\ rekey_tasks' = Append(rekey_tasks,
                    [peer |-> p, armed |-> clock, sent |-> 0, sent_at |-> 0])
             /\ keepalive_tasks' = Append(keepalive_tasks,
                    [peer |-> p, due |-> clock + KEEPALIVE_TIMEOUT])
             /\ UNCHANGED <<index_map, spawned>>

\* ------------------------------------------- handle_incoming_packet, type 4
\* lookup = None: the body of `if let Some(ref peer) = lookup` is skipped
TransportNoPeer ==
    /\ Done(Event("udp", 0, "unknown_index"))
    /\ UNCHANGED <<peers, index_map, rekey_tasks, keepalive_tasks, spawned>>

\* as TransportFallback, had the arm given up without trying the past session
TransportFallback_none(p, d, pr) ==
    /\ Panic(TransportEvent(d, p, "panic_decrypt"))
    /\ peers' = [peers EXCEPT ![p] = pr]
    /\ UNCHANGED spawned

\* the Err(_) arm: the past session is tried; pr is the peer after the
\* attempt on its current session
TransportFallback(p, d, pr) ==
    LET pr3 == [pr EXCEPT !.past.recv_nonce = d.nonce]
    IN  IF ~Present(pr.past)
        THEN \* past_noise().expect("no valid noise session")
             /\ Panic(TransportEvent(d, p, "panic_no_past"))
             /\ peers' = [peers EXCEPT ![p] = pr]
             /\ UNCHANGED spawned
        ELSE IF Authenticates(d, pr.past)
        THEN /\ Done(TransportEvent(d, p, "forwarded_past"))
             /\ peers' = [peers EXCEPT ![p] =
                    [pr3 EXCEPT !.past.recv_nonce = NonceAfterRead(d.nonce)]]
             /\ spawned' = Append(spawned, ToTunnel(d.plen))
        ELSE \* read_message(..).expect("no valid noise session")
             /\ Panic(TransportEvent(d, p, "panic_decrypt"))
             /\ peers' = [peers EXCEPT ![p] = pr3]
             /\ UNCHANGED spawned

\* snow's read_message is not among the sources: given a ciphertext shorter
\* than a tag, or a plaintext that does not fit raw_packet, it returns Err or
\* it stops on the slice it cannot take
MayStop(d) == d.len < TransportHeader + TagLen \/ d.plen > BufLen

HandleTransport(d) ==
    IF d.len < TransportHeader
    THEN \* read_u32(&packet[4..]) and read_u64(&packet[8..]) on a short
         \* slice, before the lookup
         /\ Panic(Event("udp", 0, "panic_short_header"))
         /\ UNCHANGED <<peers, index_map, rekey_tasks, keepalive_tasks, spawned>>
    ELSE IF d.receiver \notin DOMAIN index_map
    THEN TransportNoPeer
    ELSE
    LET p == index_map[d.receiver]
        pr == peers[p]
        pr1 == [pr EXCEPT !.rx_bytes = @ + WireLen(d)]
        pr2 == [pr1 EXCEPT !.current.recv_nonce = d.nonce]
    IN  /\ UNCHANGED <<index_map, rekey_tasks, keepalive_tasks>>
        /\ IF ~Present(pr.current)
           THEN \* current_noise().expect("current noise session")
                /\ Panic(TransportEvent(d, p, "panic_no_current"))
                /\ peers' = [peers EXCEPT ![p] = pr1]
                /\ UNCHANGED spawned
           ELSE IF Authenticates(d, pr.current)
           THEN /\ Done(TransportEvent(d, p, "forwarded_current"))
                /\ peers' = [peers EXCEPT ![p] =
                       [pr2 EXCEPT !.current.recv_nonce = NonceAfterRead(d.nonce)]]
                /\ spawned' = Append(spawned, ToTunnel(d.plen))
           ELSE \/ TransportFallback(p, d, pr2)
                \/ /\ MayStop(d)
                   /\ Panic(TransportEvent(d, p, "panic_read_message"))
                   /\ peers' = [peers EXCEPT ![p] = pr2]
                   /\ UNCHANGED spawned

\* --------------------------------------------------- handle_incoming_packet
handle_incoming_packet(d) ==
    /\ UNCHANGED <<udp_tx, tunnel_tx, timer_rx>>
    /\ IF d.len = 0
       THEN \* packet[0] of an empty datagram
            /\ Panic(Event("udp", 0, "panic_empty"))
            /\ UNCHANGED <<peers, index_map, rekey_tasks, keepalive_tasks, spawned>>
       ELSE CASE d.type = 1 ->
                 /\ Done(Event("udp", 0, "ignored"))
                 /\ UNCHANGED <<peers, index_map, rekey_tasks, keepalive_tasks, spawned>>
            [] d.type = 2 -> HandleResponse(d)
            [] d.type = 4 -> HandleTransport(d)
            [] OTHER ->
                 \* unimplemented!()
                 /\ Panic(Event("udp", 0, "panic_unimplemented"))
                 /\ UNCHANGED <<peers, index_map, rekey_tasks, keepalive_tasks, spawned>>


\* ------------------------------------------------------------- handle_timer
\* peer.info.endpoint
Endpoint(p) == peer_info[p].endpoint

\* TimerMessage::Rekey(peer_ref); i is the index a new session is given
HandleRekey(p, i) ==
    IF ~interface_info.private_key
    THEN \* private_key.expect("no private key!")
         /\ Panic(Event("rekey", p, "panic_no_private_key"))
         /\ UNCHANGED <<peers, index_map, spawned>>
    ELSE IF ~peer_info[p].psk
    THEN \* psk.expect("no psk!")
         /\ Panic(Event("rekey", p, "panic_no_psk"))
         /\ UNCHANGED <<peers, index_map, spawned>>
    ELSE
    LET pr == set_next_session(peers[p], i)
    IN  /\ peers' = [peers EXCEPT ![p] = pr]
        /\ index_map' = Insert(index_map, our_next_index(pr), p)
        /\ IF Endpoint(p) = NoEndpoint
           THEN \* peer.info.endpoint.unwrap(), after the slot and the table
                \* were written
                /\ Panic(Event("rekey", p, "panic_no_endpoint"))
                /\ UNCHANGED spawned
           ELSE /\ Done(Event("rekey", p, "sent_init"))
                /\ spawned' = Append(spawned,
                       ToUdp(Endpoint(p), get_handshake_packet(pr)))

\* as KeepalivePacket, had the nonce field been filled in after write_message
KeepalivePacket_after(s) ==
    Datagram(4, 0, s.their_index, s.send_nonce + 1, s.our_index, 0)

\* the keepalive datagram: type 4, their index, the sending nonce, no plaintext
KeepalivePacket(s) == Datagram(4, 0, s.their_index, s.send_nonce, s.our_index, 0)

\* TimerMessage::KeepAlive(peer_ref)
HandleKeepAlive(p) ==
    LET pr == peers[p]
    IN  /\ UNCHANGED index_map
        /\ IF ~Present(pr.current)
           THEN \* their_current_index().expect("no current index for them")
                /\ Panic(Event("keepalive", p, "panic_no_current_index"))
                /\ UNCHANGED <<peers, spawned>>
           ELSE IF Endpoint(p) = NoEndpoint
           THEN \* peer.info.endpoint.unwrap(), before the counter and the
                \* nonce are touched
                /\ Panic(Event("keepalive", p, "panic_no_endpoint"))
                /\ UNCHANGED <<peers, spawned>>
           ELSE /\ Done(Event("keepalive", p, "sent_keepalive"))
                /\ peers' = [peers EXCEPT ![p] =
                       [pr EXCEPT !.tx_bytes = @ + BufLen,
                                  !.current.send_nonce = NonceAfterWrite(@)]]
                /\ spawned' = Append(spawned,
                       ToUdp(Endpoint(p), KeepalivePacket(pr.current)))

\* the indices a Rekey message may draw: none is drawn when the handler stops
\* before the session is built, or when the slot keeps its index; otherwise
\* a new one, which is always left (Booked keeps one for every Rekey message
\* that will draw)
RekeyIdx(p) ==
    IF ~interface_info.private_key \/ ~peer_info[p].psk \/ Present(peers[p].next)
    THEN {0}
    ELSE FreshIdx

handle_timer(m) ==
    /\ UNCHANGED <<udp_tx, tunnel_tx, rekey_tasks, keepalive_tasks, udp_stream,
                   outgoing_rx>>
    /\ IF m.kind = "Rekey"
       THEN \E i \in RekeyIdx(m.peer) : HandleRekey(m.peer, i)
       ELSE HandleKeepAlive(m.peer)

\* handle_outgoing_packet: only logs
handle_outgoing_packet(pkt) ==
    /\ Done(Event("outgoing", 0, "logged"))
    /\ UNCHANGED <<peers, index_map, udp_tx, tunnel_tx, rekey_tasks, keepalive_tasks,
                   timer_rx, udp_stream, spawned>>

\* --------------------------------------------------------- PeerServer::poll
Running == status = "running"

\* timer_rx.poll() = Ready(Some(message))
PollTimer ==
    /\ Running /\ pc = "timers" /\ timer_rx # <<>>
    /\ timer_rx' = Tail(timer_rx)
    /\ handle_timer(Head(timer_rx))
    /\ UNCHANGED <<clock, pc, inputs, sink, config>>

\* timer_rx.poll() = NotReady
TimerNotReady ==
    /\ Running /\ pc = "timers" /\ timer_rx = <<>>
    /\ pc' = "udp"
    /\ UNCHANGED <<peers, index_map, timer_rx, udp_stream, outgoing_rx, udp_tx, tunnel_tx,
                   rekey_tasks, keepalive_tasks, clock, status, last, inputs, spawned, sink, config>>

\* udp_stream.poll() = Ready(Some((addr, packet)))
PollUdp ==
    /\ Running /\ pc = "udp" /\ udp_stream # <<>> /\ Head(udp_stream) # IoError
    /\ udp_stream' = Tail(udp_stream)
    /\ handle_incoming_packet(Head(udp_stream))
    /\ UNCHANGED <<outgoing_rx, clock, pc, inputs, sink, config>>

\* as PollUdpErr, had the error been passed over and the loop gone on
PollUdpErr_skip ==
    /\ Running /\ pc = "udp" /\ udp_stream # <<>> /\ Head(udp_stream) = IoError
    /\ udp_stream' = Tail(udp_stream)
    /\ status' = status
    /\ last' = Event("udp", 0, "io_error")
    /\ UNCHANGED <<peers, index_map, timer_rx, outgoing_rx, udp_tx, tunnel_tx,
                   rekey_tasks, keepalive_tasks, clock, pc, inputs, spawned, sink, config>>

\* udp_stream.poll() = Err(_): poll returns Err(())
PollUdpErr ==
    /\ Running /\ pc = "udp" /\ udp_stream # <<>> /\ Head(udp_stream) = IoError
    /\ udp_stream' = Tail(udp_stream)
    /\ status' = "failed"
    /\ last' = Event("udp", 0, "io_error")
    /\ UNCHANGED <<peers, index_map, timer_rx, outgoing_rx, udp_tx, tunnel_tx,
                   rekey_tasks, keepalive_tasks, clock, pc, inputs, spawned, sink, config>>

\* as UdpNotReady, had the loop left the socket after a single look
UdpNotReady_early ==
    /\ Running /\ pc = "udp"
    /\ pc' = "outgoing"
    /\ UNCHANGED <<peers, index_map, timer_rx, udp_stream, outgoing_rx, udp_tx, tunnel_tx,
                   rekey_tasks, keepalive_tasks, clock, status, last, inputs, spawned, sink, config>>

\* udp_stream.poll() = NotReady
UdpNotReady ==
    /\ Running /\ pc = "udp" /\ udp_stream = <<>>
    /\ pc' = "outgoing"
    /\ UNCHANGED <<peers, index_map, timer_rx, udp_stream, outgoing_rx, udp_tx, tunnel_tx,
                   rekey_tasks, keepalive_tasks, clock, status, last, inputs, spawned, sink, config>>

\* outgoing_rx.poll() = Ready(Some(packet))
PollOutgoing ==
    /\ Running /\ pc = "outgoing" /\ outgoing_rx # <<>>
    /\ outgoing_rx' = Tail(outgoing_rx)
    /\ handle_outgoing_packet(Head(outgoing_rx))
    /\ UNCHANGED <<clock, pc, inputs, sink, config>>

\* outgoing_rx.poll() = NotReady, then Ok(Async::NotReady)
OutgoingNotReady ==
    /\ Running /\ pc = "outgoing" /\ outgoing_rx = <<>>
    /\ pc' = "suspended"
    /\ UNCHANGED <<peers, index_map, timer_rx, udp_stream, outgoing_rx, udp_tx, tunnel_tx,
                   rekey_tasks, keepalive_tasks, clock, status, last, inputs, spawned, sink, config>>

\* A datagram sent into the udp_tx channel while udp_write_passthrough, the
\* task bind() spawned, lives: it enters the channel and the task is notified.
\* Once the task has ended udp_rx is dropped: the send finds the channel
\* closed and the datagram is lost.
Accept(item) ==
    IF sink # "down"
    THEN /\ udp_tx' = Append(udp_tx, item)
         /\ sink' = "busy"
    ELSE UNCHANGED <<udp_tx, sink>>

\* the reactor turns: after poll() returned NotReady, or after it returned
\* Err(()) if the caller goes on turning the reactor
Turning == (status = "running" /\ pc = "suspended") \/ status = "failed"

\* A turn of the reactor polls one of the send futures that handle.spawn
\* queued: the item goes into its channel.
RunSpawned(i) ==
    /\ Turning
    /\ spawned' = SubSeq(spawned, 1, i - 1) \o SubSeq(spawned, i + 1, Len(spawned))
    /\ IF spawned[i].chan = "udp"
       THEN /\ Accept(spawned[i].item)
            /\ UNCHANGED tunnel_tx
       ELSE /\ tunnel_tx' = Append(tunnel_tx, spawned[i].item)
            /\ UNCHANGED <<udp_tx, sink>>
    /\ UNCHANGED <<peers, index_map, timer_rx, udp_stream, outgoing_rx, rekey_tasks,
                   keepalive_tasks, clock, pc, status, last, inputs, config>>

\* The pass-through task is polled, on a turn of the reactor of its own:
\* send_all takes what the channel holds and gives it to the socket, datagram
\* by datagram.  When send_to fails on one, or writes only a part of it,
\* poll_complete returns an error and the task ends; what the channel still
\* held is lost with it.  A failure of the socket is an input of the
\* environment.
udp_write_passthrough ==
    /\ Turning
    /\ sink = "busy"
    /\ \/ /\ sink' = "up"
          /\ UNCHANGED inputs
       \/ /\ inputs < MaxInputs
          /\ sink' = "down"
          /\ inputs' = inputs + 1
    /\ UNCHANGED <<peers, index_map, timer_rx, udp_stream, outgoing_rx, udp_tx, tunnel_tx,
                   rekey_tasks, keepalive_tasks, clock, pc, status, last, spawned,
                   config>>

\* The task is notified by one of its three sources and polled again, before
\* or after the sends it spawned are polled.
Wake ==
    /\ Running /\ pc = "suspended"
    /\ timer_rx # <<>> \/ udp_stream # <<>> \/ outgoing_rx # <<>>
    /\ pc' = "timers"
    /\ UNCHANGED <<peers, index_map, timer_rx, udp_stream, outgoing_rx, udp_tx, tunnel_tx,
                   rekey_tasks, keepalive_tasks, clock, status, last, inputs, spawned, sink, config>>


\* ------------------------------------------------------------- environment
\* A datagram reaches the socket; the kernel queues it whatever poll() does.
Arrive(d) ==
    /\ Running /\ inputs < MaxInputs /\ Len(udp_stream) < MaxInbound
    /\ udp_stream' = Append(udp_stream, d)
    /\ inputs' = inputs + 1
    /\ UNCHANGED <<peers, index_map, timer_rx, outgoing_rx, udp_tx, tunnel_tx,
                   rekey_tasks, keepalive_tasks, clock, pc, status, last, spawned, sink, config>>

\* The tunnel side sends a plaintext through tx(); it runs on the reactor's
\* thread, so only while poll() is not running.
LocalSend ==
    /\ Running /\ pc = "suspended"
    /\ inputs < MaxInputs
    /\ Len(outgoing_rx) < MaxLocal /\ Len(outgoing_rx) < QueueCap
    /\ outgoing_rx' = Append(outgoing_rx, 1)
    /\ inputs' = inputs + 1
    /\ UNCHANGED <<peers, index_map, timer_rx, udp_stream, udp_tx, tunnel_tx,
                   rekey_tasks, keepalive_tasks, clock, pc, status, last, spawned, sink, config>>

\* what an initiation is built from and where it is sent
Configured(p) ==
    interface_info.private_key /\ peer_info[p].psk /\ Endpoint(p) # NoEndpoint

\* The manual trigger of section 4.2: the configuration side begins a
\* handshake for a peer that has none in flight, through the shared state and
\* udp_tx(), while poll() is not running.  It needs the keys the initiation
\* is built from and the endpoint it is sent to.  The peers are alike, so the
\* first handshakes are begun in the order of the peers' names.  The new
\* index is one of 1 .. n, and is taken only while one is left.
begin_handshake(p, n) ==
    /\ Running /\ pc = "suspended"
    /\ Configured(p) /\ ~Present(peers[p].next)
    /\ \A q \in Peers : q < p => peers[q] # NoPeer
    /\ Booked < n
    /\ \E i \in FreshIdxIn(n) :
        LET pr == set_next_session(peers[p], i)
        IN  /\ peers' = [peers EXCEPT ![p] = pr]
            /\ index_map' = Insert(index_map, our_next_index(pr), p)
            /\ Accept(<<Endpoint(p), get_handshake_packet(pr)>>)
    /\ UNCHANGED <<timer_rx, udp_stream, outgoing_rx, tunnel_tx, rekey_tasks,
                   keepalive_tasks, clock, pc, status, last, inputs, spawned, config>>

ManualTrigger(p) == begin_handshake(p, MaxIdx)

\* ------------------------------------------------------------- timer tasks
\* as RekeyReady, had the rekey future not finished with its first send
RekeyReady_recurring(t) == clock >= t.armed + REKEY_AFTER_TIME

\* timer.sleep(REKEY_AFTER_TIME) has elapsed and the future has not yet run
RekeyReady(t) == t.sent = 0 /\ clock >= t.armed + REKEY_AFTER_TIME

\* as RekeyFire, had the rekey future armed a new sleep after its send
RekeyFire_rearm(i) ==
    /\ Running /\ pc = "suspended"
    /\ RekeyReady(rekey_tasks[i])
    /\ Len(timer_rx) < QueueCap
    /\ Present(peers[rekey_tasks[i].peer].next) \/ Booked < MaxIdx
    /\ timer_rx' = Append(timer_rx, [kind |-> "Rekey", peer |-> rekey_tasks[i].peer])
    /\ rekey_tasks' = Append([rekey_tasks EXCEPT ![i].sent = @ + 1, ![i].sent_at = clock],
           [peer |-> rekey_tasks[i].peer, armed |-> clock, sent |-> 0, sent_at |-> 0])
    /\ UNCHANGED <<peers, index_map, udp_stream, outgoing_rx, udp_tx, tunnel_tx,
                   keepalive_tasks, clock, pc, status, last, inputs, spawned, sink, config>>

\* the rekey future: sleep, then one send of Rekey(peer), then it is finished.
\* The indices are bounded: the event is sent only while an index is left for
\* the handshake it begins.
RekeyFire(i) ==
    /\ Running /\ pc = "suspended"
    /\ RekeyReady(rekey_tasks[i])
    /\ Len(timer_rx) < QueueCap
    /\ Present(peers[rekey_tasks[i].peer].next) \/ Booked < MaxIdx
    /\ timer_rx' = Append(timer_rx, [kind |-> "Rekey", peer |-> rekey_tasks[i].peer])
    /\ rekey_tasks' = [rekey_tasks EXCEPT ![i].sent = @ + 1, ![i].sent_at = clock]
    /\ UNCHANGED <<peers, index_map, udp_stream, outgoing_rx, udp_tx, tunnel_tx,
                   keepalive_tasks, clock, pc, status, last, inputs, spawned, sink, config>>

\* the interval's next tick has come
KeepAliveReady(t) == clock >= t.due

\* as KeepAliveFire, had the keepalive future finished with its first send
KeepAliveFire_once(i) ==
    /\ Running /\ pc = "suspended"
    /\ KeepAliveReady(keepalive_tasks[i])
    /\ Len(timer_rx) < QueueCap
    /\ timer_rx' = Append(timer_rx, [kind |-> "KeepAlive", peer |-> keepalive_tasks[i].peer])
    /\ keepalive_tasks' = SubSeq(keepalive_tasks, 1, i - 1)
                            \o SubSeq(keepalive_tasks, i + 1, Len(keepalive_tasks))
    /\ UNCHANGED <<peers, index_map, udp_stream, outgoing_rx, udp_tx, tunnel_tx,
                   rekey_tasks, clock, pc, status, last, inputs, spawned, sink, config>>

\* the keepalive future: on every tick of the interval one send of KeepAlive(peer)
KeepAliveFire(i) ==
    /\ Running /\ pc = "suspended"
    /\ KeepAliveReady(keepalive_tasks[i])
    /\ Len(timer_rx) < QueueCap
    /\ timer_rx' = Append(timer_rx, [kind |-> "KeepAlive", peer |-> keepalive_tasks[i].peer])
    /\ keepalive_tasks' = [keepalive_tasks EXCEPT ![i].due = clock + KEEPALIVE_TIMEOUT]
    /\ UNCHANGED <<peers, index_map, udp_stream, outgoing_rx, udp_tx, tunnel_tx,
                   rekey_tasks, clock, pc, status, last, inputs, spawned, sink, config>>

\* Time passes, whatever poll() and the reactor do: a timer task that is due
\* sends its event when the reactor next turns, however late that is.
Tick ==
    /\ Running /\ clock < MaxTime
    /\ clock' = clock + 1
    /\ UNCHANGED <<peers, index_map, timer_rx, udp_stream, outgoing_rx, udp_tx, tunnel_tx,
                   rekey_tasks, keepalive_tasks, pc, status, last, inputs, spawned, sink, config>>

\* ------------------------------------------------------------ specification
ArriveAny == \E d \in Inbound \cup {IoError} : Arrive(d)
ManualAny == \E p \in Peers : ManualTrigger(p)
RekeyFireAny == \E i \in DOMAIN rekey_tasks : RekeyFire(i)
KeepAliveFireAny == \E i \in DOMAIN keepalive_tasks : KeepAliveFire(i)
RunSpawnedAny == \E i \in DOMAIN spawned : RunSpawned(i)

Next ==
    \/ PollTimer
    \/ TimerNotReady
    \/ PollUdp
    \/ PollUdpErr
    \/ UdpNotReady
    \/ PollOutgoing
    \/ OutgoingNotReady
    \/ RunSpawnedAny
    \/ udp_write_passthrough
    \/ Wake
    \/ ArriveAny
    \/ LocalSend
    \/ ManualAny
    \/ RekeyFireAny
    \/ KeepAliveFireAny
    \/ Tick

Spec == Init /\ [][Next]_vars

\* ------------------------------------- the loop under sustained inbound load
\* A remote that keeps sending: handshake initiations, which the loop only
\* logs, arrive whenever the socket has room, without end.
ArriveFlood ==
    /\ Running /\ Len(udp_stream) < MaxInbound
    /\ udp_stream' = Append(udp_stream, Datagram(1, 0, 0, 0, 0, 0))
    /\ UNCHANGED <<peers, index_map, timer_rx, outgoing_rx, udp_tx, tunnel_tx,
                   rekey_tasks, keepalive_tasks, clock, pc, status, last, inputs, spawned, sink, config>>

\* The remote answers the initiation of peer p: a response for the index of
\* the pending next slot, made for that handshake.
ArriveResponse(p) ==
    /\ Running /\ Len(udp_stream) < MaxInbound
    /\ Present(peers[p].next)
    /\ udp_stream' = Append(udp_stream,
           Datagram(2, 9, our_next_index(peers[p]), 0, our_next_index(peers[p]), 0))
    /\ UNCHANGED <<peers, index_map, timer_rx, outgoing_rx, udp_tx, tunnel_tx,
                   rekey_tasks, keepalive_tasks, clock, pc, status, last, inputs, spawned, sink, config>>

ArriveResponseAny == \E p \in Peers : ArriveResponse(p)

\* The remote sends a transport datagram under the keys of a session of
\* index k, addressed to an index r it has learned.
ArriveTransport(r, k) ==
    /\ Running /\ inputs < MaxInputs /\ Len(udp_stream) < MaxInbound
    /\ udp_stream' = Append(udp_stream, Datagram(4, 0, r, 1, k, 1))
    /\ inputs' = inputs + 1
    /\ UNCHANGED <<peers, index_map, timer_rx, outgoing_rx, udp_tx, tunnel_tx,
                   rekey_tasks, keepalive_tasks, clock, pc, status, last, spawned, sink, config>>

ArriveTransportAny == \E r, k \in DOMAIN index_map : ArriveTransport(r, k)

\* recv_from fails with an error other than WouldBlock
ArriveError ==
    /\ Running /\ Len(udp_stream) < MaxInbound
    /\ udp_stream' = Append(udp_stream, IoError)
    /\ UNCHANGED <<peers, index_map, timer_rx, outgoing_rx, udp_tx, tunnel_tx,
                   rekey_tasks, keepalive_tasks, clock, pc, status, last, inputs, spawned, sink, config>>

\* one step of poll(): the code between entry and return runs on
LoopStep ==
    \/ PollTimer
    \/ TimerNotReady
    \/ PollUdp
    \/ PollUdpErr
    \/ UdpNotReady
    \/ PollOutgoing
    \/ OutgoingNotReady

NextLive ==
    \/ LoopStep
    \/ RunSpawnedAny
    \/ udp_write_passthrough
    \/ Wake
    \/ ArriveFlood
    \/ ArriveError
    \/ ArriveResponseAny
    \/ LocalSend
    \/ ManualAny
    \/ RekeyFireAny
    \/ KeepAliveFireAny
    \/ Tick

\* The reactor is fair: poll() runs on until it returns, a spawned send is
\* polled while the loop lives, a notified task is polled, and a timer task
\* that is due whenever the loop is suspended gets its turn.  Nothing is
\* assumed of the remote, of the socket, of the tunnel side or of the clock.
Fairness ==
    /\ WF_vars(LoopStep)
    /\ WF_vars(Running /\ RunSpawnedAny)
    /\ WF_vars(Wake)
    /\ SF_vars(RekeyFireAny)
    /\ SF_vars(KeepAliveFireAny)

SpecLive == Init /\ [][NextLive]_vars /\ Fairness

\* ---------------------------------------- a peer followed through rotations
\* Handshakes are begun by hand and answered by the remote one after the
\* other, before any timer is due; the remote sends transport datagrams,
\* under the keys of any session and for any index it has learned.
ManualRotate(p) == begin_handshake(p, MaxRotIdx)

ManualRotateAny == \E p \in Peers : ManualRotate(p)

NextRotate ==
    \/ TimerNotReady
    \/ PollUdp
    \/ UdpNotReady
    \/ OutgoingNotReady
    \/ RunSpawnedAny
    \/ udp_write_passthrough
    \/ Wake
    \/ ManualRotateAny
    \/ ArriveResponseAny
    \/ ArriveTransportAny

SpecRotate == Init /\ [][NextRotate]_vars


\* ================================================================== claims
\* the step is poll() taking the datagram at the head of the socket's queue
HandlesDatagram ==
    /\ Running /\ pc = "udp" /\ udp_stream # <<>> /\ Head(udp_stream) # IoError
    /\ udp_stream' = Tail(udp_stream)

\* the step is poll() taking the message at the head of the timer queue
HandlesTimer ==
    /\ Running /\ pc = "timers" /\ timer_rx # <<>>
    /\ timer_rx' = Tail(timer_rx)

\* the datagram, and the timer message, such a step handles
Dgram == Head(udp_stream)
TimerMsg == Head(timer_rx)

KnownIndex(d) == d.receiver \in DOMAIN index_map
PeerOf(d) == peers[index_map[d.receiver]]

\* the step is the reactor polling the i-th of the spawned sends
RunsSpawned(i) ==
    /\ i \in DOMAIN spawned
    /\ spawned' = SubSeq(spawned, 1, i - 1) \o SubSeq(spawned, i + 1, Len(spawned))

\* C1: handling a transport datagram whose receiver index is not in the Index
\* Table is a drop for an unknown index that changes nothing: the peers, the
\* Index Table, the timers and what was sent to the tunnel and to the socket
\* stay as they were, and the loop goes on.
C1_UnknownIndexNoMutation ==
    [][(HandlesDatagram /\ Dgram.type = 4 /\ ~KnownIndex(Dgram))
        => /\ last'.outcome = "unknown_index"
           /\ status' = "running"
           /\ UNCHANGED <<peers, index_map, tunnel_tx, udp_tx, spawned, timer_rx,
                          rekey_tasks, keepalive_tasks>>]_vars

\* C2: no datagram stops the loop, whatever its first byte, and a datagram of
\* type 3 or of an unknown type changes neither a peer nor the Index Table.
C2_NoDatagramStopsLoop ==
    [][HandlesDatagram
        => /\ status' = "running"
           /\ (Dgram.type \notin {1, 2, 4} => UNCHANGED <<peers, index_map>>)]_vars

\* C3: a handshake response whose receiver index is unknown, or whose payload
\* does not authenticate against the peer's next handshake state, has no side
\* effects: the next slot (the remote index recorded in it included), the
\* current and past slots, the Index Table and the timers stay as they were.
C3_FailedResponseNoSideEffect ==
    [][(/\ HandlesDatagram /\ Dgram.type = 2
        /\ \/ ~KnownIndex(Dgram)
           \/ /\ KnownIndex(Dgram) /\ Present(PeerOf(Dgram).next)
              /\ ~Authenticates(Dgram, PeerOf(Dgram).next))
        => UNCHANGED <<peers, index_map, rekey_tasks, keepalive_tasks>>]_vars

\* C4: a Rekey event for a peer whose next slot is pending is rejected: the
\* slots and the Index Table stay and no second initiation is sent.
C4_SecondInitiationRejected ==
    [][(HandlesTimer /\ TimerMsg.kind = "Rekey" /\ Present(peers[TimerMsg.peer].next))
        => UNCHANGED <<peers, index_map, udp_tx, spawned>>]_vars

\* C5: an event that needs a slot the peer lacks is dropped and the loop goes
\* on: a transport datagram for a peer without current, one that fails against
\* current for a peer without past, a response for a peer without next.
C5_AbsentSlotDropped ==
    [][(/\ HandlesDatagram /\ KnownIndex(Dgram)
        /\ \/ Dgram.type = 4 /\ ~Present(PeerOf(Dgram).current)
           \/ /\ Dgram.type = 4 /\ Present(PeerOf(Dgram).current)
              /\ ~Authenticates(Dgram, PeerOf(Dgram).current)
              /\ ~Present(PeerOf(Dgram).past)
           \/ Dgram.type = 2 /\ ~Present(PeerOf(Dgram).next))
        => status' = "running"]_vars


\* C6: a handshake completion makes the session that was current the past
\* session, and a transport datagram made under the past session and addressed
\* to its index is, after the rotation, decrypted by the fallback from
\* current to past and forwarded to the tunnel: the handler spawns the send
\* of its plaintext, and the reactor's turn that runs the send puts that
\* plaintext into the tunnel's channel.
C6_PastStillDecrypts ==
    [][/\ (HandlesDatagram /\ last'.outcome = "ratcheted")
            => peers'[last'.peer].past = peers[last'.peer].current
       /\ (/\ HandlesDatagram /\ Dgram.type = 4 /\ KnownIndex(Dgram)
           /\ Present(PeerOf(Dgram).current) /\ Present(PeerOf(Dgram).past)
           /\ Dgram.receiver = PeerOf(Dgram).past.our_index
           /\ Authenticates(Dgram, PeerOf(Dgram).past))
            => /\ status' = "running"
               /\ last'.outcome = "forwarded_past"
               /\ spawned' = Append(spawned, ToTunnel(Dgram.plen))
       /\ \A i \in DOMAIN spawned :
             (RunsSpawned(i) /\ spawned[i].chan = "tunnel")
                 => tunnel_tx' = Append(tunnel_tx, spawned[i].item)
       /\ tunnel_tx' # tunnel_tx
            => \E i \in DOMAIN spawned : RunsSpawned(i) /\ spawned[i].chan = "tunnel"]_vars

\* a datagram of the superseded session was forwarded after the rotation and
\* its plaintext has reached the tunnel
C6_Witness ==
    /\ last.outcome = "forwarded_past"
    /\ Present(peers[last.peer].past) /\ Present(peers[last.peer].current)
    /\ tunnel_tx # <<>> /\ spawned = <<>>

\* C7: a transport datagram for a known index that fails against both the
\* current and the past session is dropped: no byte counter moves, nothing is
\* forwarded, the loop goes on.
C7_DecryptFailedDropped ==
    [][(/\ HandlesDatagram /\ Dgram.type = 4 /\ KnownIndex(Dgram)
        /\ Present(PeerOf(Dgram).current) /\ Present(PeerOf(Dgram).past)
        /\ ~Authenticates(Dgram, PeerOf(Dgram).current)
        /\ ~Authenticates(Dgram, PeerOf(Dgram).past))
        => /\ status' = "running"
           /\ UNCHANGED <<tunnel_tx, spawned>>
           /\ \A p \in Peers : /\ peers'[p].rx_bytes = peers[p].rx_bytes
                               /\ peers'[p].tx_bytes = peers[p].tx_bytes]_vars

\* the transport datagrams sent so far, by position in udp_tx
SentTransport == {i \in DOMAIN udp_tx : udp_tx[i][2].type = 4}

\* the transport datagrams made under the keys k that entered the socket's
\* channel or whose send is spawned
MadeUnder(k) ==
    {udp_tx[i][2] : i \in {j \in SentTransport : udp_tx[j][2].key = k}}
    \cup {spawned[i].item[2] :
             i \in {j \in DOMAIN spawned : /\ spawned[j].chan = "udp"
                                            /\ spawned[j].item[2].type = 4
                                            /\ spawned[j].item[2].key = k}}

\* C8: the nonces of the transport datagrams made under one session strictly
\* increase in the order they are made: a datagram carries the sending nonce
\* its session then has, which is above the nonce of every datagram made
\* under the session before, and the session's sending nonce moves past it;
\* the sending nonce of a peer's current session goes back only in a step
\* that installs another session as current.
C8_NoncesIncrease ==
    [][/\ (HandlesTimer /\ TimerMsg.kind = "KeepAlive" /\ Len(spawned') = Len(spawned) + 1)
            => LET new == spawned'[Len(spawned')].item[2]
                   cur == peers[TimerMsg.peer].current
               IN  /\ new.type = 4 /\ new.key = cur.our_index
                   /\ new.nonce = cur.send_nonce
                   /\ peers'[TimerMsg.peer].current.send_nonce > new.nonce
                   /\ \A d \in MadeUnder(new.key) : d.nonce < new.nonce
       /\ \A p \in Peers :
            peers'[p].current.send_nonce < peers[p].current.send_nonce
                => /\ peers'[p].current.our_index # peers[p].current.our_index
                   /\ last'.outcome = "ratcheted"]_vars

\* two keepalives went out under one session, and a later session of the
\* same peer started again from nonce 0
C8_Witness ==
    /\ \E i, j \in SentTransport : i < j /\ udp_tx[i][2].key = udp_tx[j][2].key
    /\ \E p \in Peers :
          /\ Present(peers[p].past) /\ peers[p].past.send_nonce > 0
          /\ \E j \in SentTransport :
                udp_tx[j][2].key = peers[p].current.our_index /\ udp_tx[j][2].nonce = 0

\* C9: a rekey task sends at most one Rekey event, not before REKEY_AFTER_TIME
\* has passed since the completion that spawned it, and every Rekey event that
\* enters the timer queue is the one event of such a task, for its peer.
C9_RekeySingleShot ==
    /\ [](\A i \in DOMAIN rekey_tasks :
            /\ rekey_tasks[i].sent <= 1
            /\ rekey_tasks[i].sent = 1
                 => rekey_tasks[i].sent_at >= rekey_tasks[i].armed + REKEY_AFTER_TIME)
    /\ [][(Len(timer_rx') > Len(timer_rx) /\ timer_rx'[Len(timer_rx')].kind = "Rekey")
            => \E i \in DOMAIN rekey_tasks :
                  /\ rekey_tasks[i].sent = 0 /\ rekey_tasks'[i].sent = 1
                  /\ rekey_tasks[i].peer = timer_rx'[Len(timer_rx')].peer
                  /\ timer_rx' = Append(timer_rx, [kind |-> "Rekey", peer |-> rekey_tasks[i].peer])
                  /\ \A j \in DOMAIN rekey_tasks \ {i} : rekey_tasks'[j] = rekey_tasks[j]]_vars

\* a rekey task has sent its event, the loop has handled it, and the task
\* stays finished while the keepalive task beside it goes on
C9_Witness ==
    /\ last.kind = "rekey" /\ timer_rx = <<>>
    /\ \E i \in DOMAIN rekey_tasks :
          /\ rekey_tasks[i].sent = 1 /\ rekey_tasks[i].peer = last.peer
          /\ clock >= rekey_tasks[i].armed + REKEY_AFTER_TIME


\* the step is poll() taking the plaintext at the head of the local queue
HandlesOutgoing ==
    /\ Running /\ pc = "outgoing" /\ outgoing_rx # <<>>
    /\ outgoing_rx' = Tail(outgoing_rx)

\* poll() returns Ok(Async::NotReady)
Suspends == pc # "suspended" /\ pc' = "suspended"

\* C10 as stated: the queues are drained in the order timers, datagrams,
\* plaintext, each to exhaustion, and the loop suspends only when all three
\* queues are empty.
C10_SuspendsWithAllEmpty ==
    [][/\ HandlesDatagram => timer_rx = <<>>
       /\ HandlesOutgoing => timer_rx = <<>>
       /\ (pc = "timers" /\ pc' = "udp") => timer_rx = <<>>
       /\ (pc = "udp" /\ pc' = "outgoing") => udp_stream = <<>>
       /\ Suspends => /\ timer_rx' = <<>>
                      /\ udp_stream' = <<>>
                      /\ outgoing_rx' = <<>>]_vars

\* C10 as amended: the queues are drained in the order timers, datagrams,
\* plaintext, each until it is found empty; when the loop suspends the timer
\* queue and the plaintext queue are empty, and the socket holds only
\* datagrams that arrived after the loop had found it empty (while the
\* plaintext queue is drained no datagram is taken, datagrams only arrive).
C10_DrainOrder ==
    [][/\ HandlesDatagram => timer_rx = <<>>
       /\ HandlesOutgoing => timer_rx = <<>>
       /\ (pc = "timers" /\ pc' = "udp") => timer_rx = <<>>
       /\ (pc = "udp" /\ pc' = "outgoing") => udp_stream = <<>>
       /\ pc = "outgoing" =>
             \/ udp_stream' = udp_stream
             \/ /\ inputs' = inputs + 1
                /\ \E d \in Inbound \cup {IoError} : udp_stream' = Append(udp_stream, d)
       /\ Suspends => /\ pc = "outgoing"
                      /\ timer_rx' = <<>>
                      /\ outgoing_rx' = <<>>]_vars

\* the loop has suspended after a cycle in which it handled a plaintext, with
\* a datagram that arrived meanwhile waiting in the socket
C10_Witness ==
    /\ pc = "suspended" /\ status = "running"
    /\ last.outcome = "logged"
    /\ timer_rx = <<>> /\ outgoing_rx = <<>> /\ udp_stream # <<>>
    /\ udp_tx # <<>>

\* C12: a peer's byte counters move by the wire size of the datagrams
\* exchanged: a keepalive raises tx_bytes by the length of the datagram put on
\* the wire, and a transport datagram that is decrypted and forwarded raises
\* rx_bytes by the length of the datagram received.
C12_CountersByWireSize ==
    [][/\ (HandlesTimer /\ TimerMsg.kind = "KeepAlive" /\ Len(spawned') = Len(spawned) + 1)
            => peers'[TimerMsg.peer].tx_bytes =
                   peers[TimerMsg.peer].tx_bytes
                       + WireLen(spawned'[Len(spawned')].item[2])
       /\ (HandlesDatagram /\ last'.outcome \in {"forwarded_current", "forwarded_past"})
            => peers'[last'.peer].rx_bytes = peers[last'.peer].rx_bytes + WireLen(Dgram)]_vars

\* the session a slot holds, whatever its nonce counters have reached
SessionOf(s) == <<s.our_index, s.their_index>>

\* C13: a peer's current session changes only by handshake completion, after
\* the response payload authenticated: a step that leaves another session in
\* current is the handling of a type-2 datagram addressed to that peer whose
\* payload was made for the peer's next handshake state, and it is that next
\* session which becomes current; no other event changes current.
C13_CurrentOnlyByCompletion ==
    [][\A p \in Peers :
          SessionOf(peers'[p].current) # SessionOf(peers[p].current)
            => /\ HandlesDatagram /\ Dgram.type = 2
               /\ KnownIndex(Dgram) /\ index_map[Dgram.receiver] = p
               /\ Present(peers[p].next)
               /\ Dgram.key = peers[p].next.our_index
               /\ peers'[p].current.our_index = peers[p].next.our_index
               /\ last'.outcome = "ratcheted"]_vars

\* a completion replaced a session that had been in use: the session now past
\* had sent a keepalive, and the completion is the last event handled
C13_Witness ==
    /\ last.outcome = "ratcheted"
    /\ Present(peers[last.peer].current)
    /\ Present(peers[last.peer].past) /\ peers[last.peer].past.send_nonce > 0

\* the sessions a peer holds
Slots(pr) == {s \in {pr.next, pr.current, pr.past} : Present(s)}

\* C14: in every reachable state the local index of every session held in a
\* peer's next, current or past slot is a key of the Index Table, and the table
\* maps it to that peer.
C14_SlotIndicesRegistered ==
    \A p \in Peers : \A s \in Slots(peers[p]) :
        /\ s.our_index \in DOMAIN index_map
        /\ index_map[s.our_index] = p

\* the Rekey handler has begun a handshake for a peer that holds a current
\* session: the peer holds two sessions, each under its own index
C14_Witness ==
    /\ last.kind = "rekey"
    /\ Present(peers[last.peer].next) /\ Present(peers[last.peer].current)
    /\ Cardinality({i \in DOMAIN index_map : index_map[i] = last.peer}) >= 2

\* C15: Index Table entries are only ever added: an index the table maps to
\* a peer is mapped to that peer after every step; no event removes the entry
\* and a handshake begun for another peer does not take the index over.
C15_IndexTableOnlyGrows ==
    [][\A i \in DOMAIN index_map :
          /\ i \in DOMAIN index_map'
          /\ index_map'[i] = index_map[i]]_vars

\* a handshake was begun for the second peer after the first peer's session
\* had been registered and become current: both entries are in the table
C15_Witness ==
    /\ \E i, j \in DOMAIN index_map : index_map[i] = 1 /\ index_map[j] = 2
    /\ Present(peers[1].current)
    /\ Present(peers[2].next)

\* C16: handling KeepAlive for a peer with a current session sends exactly one
\* datagram: one send is spawned, of a datagram of type 4 for the peer's
\* endpoint, with the remote index of the current session, an empty plaintext
\* made under that session and, in the nonce field, the sending nonce the
\* session had when it encrypted; the session's sending nonce goes up by one;
\* the sessions in next, current and past, every other peer and the Index
\* Table stay as they were.  The reactor's turn that runs a spawned send of a
\* datagram puts that datagram into the socket's channel, as long as the
\* pass-through to the socket lives.
C16_KeepAliveFrame ==
    [][/\ (/\ HandlesTimer /\ TimerMsg.kind = "KeepAlive"
           /\ Present(peers[TimerMsg.peer].current))
            => LET p == TimerMsg.peer
                   cur == peers[p].current
               IN  /\ Endpoint(p) # NoEndpoint
                   /\ spawned' = Append(spawned,
                          ToUdp(Endpoint(p),
                                Datagram(4, 0, cur.their_index, cur.send_nonce,
                                         cur.our_index, 0)))
                   /\ UNCHANGED udp_tx
                   /\ peers'[p].current = [cur EXCEPT !.send_nonce = cur.send_nonce + 1]
                   /\ peers'[p].next = peers[p].next
                   /\ peers'[p].past = peers[p].past
                   /\ \A q \in Peers \ {p} : peers'[q] = peers[q]
                   /\ index_map' = index_map
       /\ \A i \in DOMAIN spawned :
             (RunsSpawned(i) /\ spawned[i].chan = "udp" /\ sink # "down")
                 => udp_tx' = Append(udp_tx, spawned[i].item)]_vars

\* a second keepalive went out under a session, for a peer that also has a
\* handshake in flight, and it is the last datagram sent
C16_Witness ==
    /\ last.outcome = "sent_keepalive"
    /\ Present(peers[last.peer].next)
    /\ peers[last.peer].current.send_nonce = 2
    /\ spawned = <<>>
    /\ udp_tx[Len(udp_tx)] =
          <<Endpoint(last.peer),
            Datagram(4, 0, peers[last.peer].current.their_index, 1,
                     peers[last.peer].current.our_index, 0)>>

\* the step puts a Rekey event for peer p into the timer queue
EmitsRekey(p) ==
    /\ Len(timer_rx') = Len(timer_rx) + 1
    /\ timer_rx'[Len(timer_rx')] = [kind |-> "Rekey", peer |-> p]

\* the step handles a handshake response addressed to peer p
HandlesResponseFor(p) ==
    /\ HandlesDatagram /\ Dgram.type = 2
    /\ KnownIndex(Dgram) /\ index_map[Dgram.receiver] = p

\* the rekey timers armed so far for peer p, by position
RekeyTasksOf(p) == {i \in DOMAIN rekey_tasks : rekey_tasks[i].peer = p}

\* a rekey timer is armed only by a handshake completion, and a pending next
\* slot stays as it is until a response for its peer is handled
ArmedOnlyByCompletion ==
    /\ Len(rekey_tasks') >= Len(rekey_tasks)
    /\ Len(rekey_tasks') > Len(rekey_tasks)
        => /\ HandlesDatagram /\ last'.outcome = "ratcheted"
           /\ Len(rekey_tasks') = Len(rekey_tasks) + 1
           /\ rekey_tasks'[Len(rekey_tasks')].peer = last'.peer
           /\ rekey_tasks'[Len(rekey_tasks')].sent = 0
    /\ \A p \in Peers :
          (Present(peers[p].next) /\ ~HandlesResponseFor(p))
              => peers'[p].next = peers[p].next

\* C17 as stated: a rekey timer is armed only by a handshake completion, and
\* while the response to a peer's initiation has not arrived its next slot
\* stays pending and no Rekey event is emitted for that peer.
C17_NoRekeyWhilePending ==
    [][/\ ArmedOnlyByCompletion
       /\ \A p \in Peers : EmitsRekey(p) => ~Present(peers[p].next)]_vars

\* C17 as amended: a rekey timer is armed only by a handshake completion, and
\* while the response to a peer's initiation has not arrived its next slot
\* stays pending and no rekey timer is armed for that peer; a Rekey event
\* emitted for it meanwhile is the one event of a timer armed by a completion
\* that came before.
C17_NoTimerArmedWhilePending ==
    [][/\ ArmedOnlyByCompletion
       /\ \A p \in Peers :
             (Present(peers[p].next) /\ ~HandlesResponseFor(p))
                 => /\ RekeyTasksOf(p)' = RekeyTasksOf(p)
                    /\ EmitsRekey(p)
                         => \E i \in RekeyTasksOf(p) :
                               /\ rekey_tasks[i].sent = 0
                               /\ rekey_tasks'[i].sent = 1
                               /\ rekey_tasks[i].armed + REKEY_AFTER_TIME <= clock]_vars

\* a peer's handshake is in flight, the one rekey timer an earlier completion
\* armed for it has sent its event, and the event waits in the timer queue
C17_Witness ==
    \E p \in Peers :
        /\ Present(peers[p].next) /\ Present(peers[p].current)
        /\ \E k \in DOMAIN timer_rx : timer_rx[k] = [kind |-> "Rekey", peer |-> p]
        /\ RekeyTasksOf(p) # {}
        /\ \A i \in RekeyTasksOf(p) : rekey_tasks[i].sent = 1

\* C18: a KeepAlive event is only ever handled for a peer that has a current
\* session with a remote index: every keepalive task and every KeepAlive event
\* in the timer queue belongs to such a peer, and keepalive handling has never
\* met an absent current session.
C18_KeepAliveHasCurrent ==
    /\ \A i \in DOMAIN keepalive_tasks :
          /\ Present(peers[keepalive_tasks[i].peer].current)
          /\ their_current_index(peers[keepalive_tasks[i].peer]) # 0
    /\ \A k \in DOMAIN timer_rx :
          timer_rx[k].kind = "KeepAlive"
              => /\ Present(peers[timer_rx[k].peer].current)
                 /\ their_current_index(peers[timer_rx[k].peer]) # 0
    /\ last.outcome # "panic_no_current_index"

\* a KeepAlive event was handled for a peer whose sessions had been rotated
\* by a second completion
C18_Witness ==
    /\ last.outcome = "sent_keepalive"
    /\ Present(peers[last.peer].past)
    /\ Present(peers[last.peer].current)

\* the handshakes peer p has completed: every handshake begun for it took a
\* new index, and all but the one still in flight were completed
Completed(p) ==
    Cardinality({i \in DOMAIN index_map : index_map[i] = p})
        - (IF Present(peers[p].next) THEN 1 ELSE 0)

\* the keepalive tasks of peer p, by position
KeepaliveTasksOf(p) == {i \in DOMAIN keepalive_tasks : keepalive_tasks[i].peer = p}

\* C19 as stated: keepalive tasks accumulate: in every reachable state a peer
\* has as many keepalive tasks as it has completed handshakes; no step stops
\* a task or gives it to another peer, and every interval of a task, each
\* KEEPALIVE_TIMEOUT after the one before, puts one KeepAlive event for its
\* peer into the timer queue, so n tasks make n events per interval.
C19_EveryIntervalServed ==
    /\ [](\A p \in Peers : Cardinality(KeepaliveTasksOf(p)) = Completed(p))
    /\ [][\A i \in DOMAIN keepalive_tasks :
            /\ i \in DOMAIN keepalive_tasks'
            /\ keepalive_tasks'[i].peer = keepalive_tasks[i].peer
            /\ keepalive_tasks'[i] # keepalive_tasks[i]
                => /\ keepalive_tasks'[i].due = keepalive_tasks[i].due + KEEPALIVE_TIMEOUT
                   /\ timer_rx' = Append(timer_rx,
                          [kind |-> "KeepAlive", peer |-> keepalive_tasks[i].peer])]_vars

\* C19 as amended: keepalive tasks accumulate: in every reachable state a
\* peer has as many keepalive tasks as it has completed handshakes; no step
\* stops a task or gives it to another peer; a task sends when its interval
\* has elapsed and the reactor polls it, one KeepAlive event for its peer,
\* and its next interval is counted from that poll: n tasks make n events
\* per interval when they are polled as they come due, and fewer when the
\* reactor is late.
C19_KeepAliveTasksAccumulate ==
    /\ [](\A p \in Peers : Cardinality(KeepaliveTasksOf(p)) = Completed(p))
    /\ [][\A i \in DOMAIN keepalive_tasks :
            /\ i \in DOMAIN keepalive_tasks'
            /\ keepalive_tasks'[i].peer = keepalive_tasks[i].peer
            /\ keepalive_tasks'[i] # keepalive_tasks[i]
                => /\ clock >= keepalive_tasks[i].due
                   /\ keepalive_tasks'[i].due = clock + KEEPALIVE_TIMEOUT
                   /\ timer_rx' = Append(timer_rx,
                          [kind |-> "KeepAlive", peer |-> keepalive_tasks[i].peer])]_vars

\* a peer that completed two handshakes has two keepalive tasks, and one
\* interval has put two KeepAlive events for it into the timer queue
C19_Witness ==
    \E p \in Peers :
        /\ Completed(p) = 2
        /\ Cardinality(KeepaliveTasksOf(p)) = 2
        /\ Len(timer_rx) = 2
        /\ \A k \in DOMAIN timer_rx : timer_rx[k] = [kind |-> "KeepAlive", peer |-> p]
        /\ \A i \in KeepaliveTasksOf(p) : keepalive_tasks[i].due = clock + KEEPALIVE_TIMEOUT

\* C20: the receiver index of a transport datagram picks a peer, not a
\* session: whichever of the peer's indices it carries, the datagram is tried
\* against the peer's current session and then its past session, and when its
\* payload was made for either (and the plaintext fits the buffer it is
\* decrypted into) it is accepted and the send of its plaintext to the tunnel
\* is spawned.
C20_IndexResolvesToPeer ==
    [][(/\ HandlesDatagram /\ Dgram.type = 4 /\ KnownIndex(Dgram)
        /\ Dgram.len >= TransportHeader /\ Dgram.plen <= BufLen
        /\ Present(PeerOf(Dgram).current)
        /\ \/ Dgram.key = PeerOf(Dgram).current.our_index
           \/ /\ Present(PeerOf(Dgram).past)
              /\ Dgram.key = PeerOf(Dgram).past.our_index)
        => /\ status' = "running"
           /\ last'.peer = index_map[Dgram.receiver]
           /\ last'.outcome = IF Dgram.key = PeerOf(Dgram).current.our_index
                              THEN "forwarded_current" ELSE "forwarded_past"
           /\ spawned' = Append(spawned, ToTunnel(Dgram.plen))]_vars

\* a transport datagram was forwarded that carried the index of a session
\* superseded twice: an index of the peer that none of its three slots holds
C20_Witness ==
    /\ last.outcome \in {"forwarded_current", "forwarded_past"}
    /\ last.index \in DOMAIN index_map /\ index_map[last.index] = last.peer
    /\ last.index \notin {peers[last.peer].next.our_index,
                          peers[last.peer].current.our_index,
                          peers[last.peer].past.our_index}
    /\ Present(peers[last.peer].past)
    /\ tunnel_tx # <<>>

\* a rekey or keepalive timer has come due and its event is not yet handled
TimerDue ==
    /\ Running
    /\ \/ \E i \in DOMAIN rekey_tasks : RekeyReady(rekey_tasks[i])
       \/ \E i \in DOMAIN keepalive_tasks : KeepAliveReady(keepalive_tasks[i])
       \/ timer_rx # <<>>

\* every timer that had come due has sent its event and the loop has handled it
TimersServed ==
    /\ \A i \in DOMAIN rekey_tasks : ~RekeyReady(rekey_tasks[i])
    /\ \A i \in DOMAIN keepalive_tasks : ~KeepAliveReady(keepalive_tasks[i])
    /\ timer_rx = <<>>

\* no index is left for the handshake a Rekey event is to begin
IndicesUsedUp == Booked >= MaxIdx

\* C11: under a fair scheduler every Rekey or KeepAlive whose timer has come
\* due is eventually handled by the loop, even when inbound datagrams keep
\* arriving without pause (unless the loop has ended first).
C11_TimersNotStarved ==
    TimerDue ~> (TimersServed \/ ~Running \/ IndicesUsedUp)

\* the step is poll() asking the socket and getting its error
PollsSocketError ==
    /\ Running /\ pc = "udp" /\ udp_stream # <<>> /\ Head(udp_stream) = IoError
    /\ udp_stream' = Tail(udp_stream)

\* C21: when an input source reports an error the loop ends with an error in
\* that cycle and handles no later event: the step that meets the error
\* handles nothing and leaves the loop failed, what waits in the timer queue
\* and in the plaintext queue stays there, and from a failed loop no step is
\* taken but the reactor polling a send spawned before or the pass-through
\* to the socket; the loop fails in no other way.
C21_SourceErrorEndsLoop ==
    [][/\ PollsSocketError
            => /\ status' = "failed"
               /\ last'.outcome = "io_error"
               /\ UNCHANGED <<peers, index_map, timer_rx, outgoing_rx, udp_tx,
                              tunnel_tx, spawned, rekey_tasks, keepalive_tasks>>
       /\ status = "failed"
            => /\ UNCHANGED <<peers, index_map, timer_rx, udp_stream, outgoing_rx,
                              rekey_tasks, keepalive_tasks, pc, status, last>>
               /\ \/ \E i \in DOMAIN spawned : RunsSpawned(i)
                  \/ /\ sink = "busy" /\ sink' # "busy"
                     /\ UNCHANGED <<spawned, udp_tx, tunnel_tx>>
       /\ (status # "failed" /\ status' = "failed") => PollsSocketError]_vars

\* the loop has failed on a socket error with a plaintext still waiting in
\* the local queue and a keepalive task alive whose events nobody will handle
C21_Witness ==
    /\ status = "failed" /\ last.outcome = "io_error"
    /\ outgoing_rx # <<>>
    /\ keepalive_tasks # <<>>

====
